---- MODULE Spec2Model ----
(***************************************************************************)
(* State-machine model of ez-redirect's backend: the RedirectState manager *)
(* (backend/redirect_state.py) and the request handlers that drive it      *)
(* (backend/app.py).                                                       *)
(*                                                                         *)
(* Python strings that the code transforms (lower(), replace(), split(),   *)
(* int()) are sequences of one-character strings, so the transformations   *)
(* are computed.  Strings the code only stores and compares (URLs, API     *)
(* keys) are TLA+ strings.  None is the empty sequence and a present       *)
(* value v is <<v>>.                                                       *)
(***************************************************************************)
EXTENDS Integers, Sequences, FiniteSets, TLC

\* ------------------------------------------------------------------ bounds

\* Wall-clock readings run from StartTime to StartTime + MaxNow.
StartTime == 2
MaxNow == 3
\* Clock readings that fall into one wall-clock minute.
TicksPerMinute == 2
\* Minutes of a day the clock visits (00:00 first), see SlotHour/SlotMinute.
MinutesPerDay == 2
\* Longest preset name, and most presets the registry is driven to.
MaxNameLen == 1
MaxPresets == 2
\* Most recurring / manual events the lists are driven to.
MaxScheduled == 2
MaxManual == 2
\* Process restarts explored.
MaxRestarts == 1
\* Redirect-state calls remembered in hist.
HistLen == 2

\* ----------------------------------------------------------------- helpers

None == <<>>
Some(v) == <<v>>
IsNone(o) == Len(o) = 0
Val(o) == o[1]

Last(s) == s[Len(s)]
Remember(h, r) == IF Len(h) < HistLen THEN Append(h, r) ELSE Append(Tail(h), r)

\* str.lower() on the characters the model uses.
LowerChar(c) == CASE c = "A" -> "a"
                  [] c = "M" -> "m"
                  [] c = "S" -> "s"
                  [] OTHER -> c
Lower(s) == [i \in DOMAIN s |-> LowerChar(s[i])]
\* str.replace("-", " ")
ReplaceDash(s) == [i \in DOMAIN s |-> IF s[i] = "-" THEN " " ELSE s[i]]

\* JSON values of a request body: null, a number, a string.
JNull == <<"null">>
JInt(n) == <<"int", n>>
JStr(s) == <<"str", s>>
\* a JSON number with a fraction part: whole + tenths / 10
JFloat(whole, tenths) == <<"float", whole, tenths>>
IsStr(j) == j[1] = "str"

Digits == {"0", "1", "2", "3", "4", "5", "6", "7", "8", "9"}
DigitVal(c) == CASE c = "0" -> 0 [] c = "1" -> 1 [] c = "2" -> 2 [] c = "3" -> 3
                 [] c = "4" -> 4 [] c = "5" -> 5 [] c = "6" -> 6 [] c = "7" -> 7
                 [] c = "8" -> 8 [] c = "9" -> 9 [] OTHER -> 0
RECURSIVE DecVal(_)
DecVal(s) == IF Len(s) = 0 THEN 0
             ELSE 10 * DecVal(SubSeq(s, 1, Len(s) - 1)) + DigitVal(s[Len(s)])
\* int(str): a non-empty run of digits, ValueError otherwise.
IsDecimal(s) == Len(s) > 0 /\ \A i \in DOMAIN s : s[i] \in Digits

\* int(x) of a JSON value: <<"ok", n>>, <<"ValueError">> or <<"TypeError">>;
\* int() of a float drops the fraction.
PyInt(j) == CASE j[1] = "int" -> <<"ok", j[2]>>
              [] j[1] = "float" -> <<"ok", j[2]>>
              [] j[1] = "str" -> IF IsDecimal(j[2]) THEN <<"ok", DecVal(j[2])>>
                                 ELSE <<"ValueError">>
              [] OTHER -> <<"TypeError">>

\* Python truthiness of a number.
Truthy(n) == n /= 0

\* ------------------------------------------------------------------- state

VARIABLES
    data,                  \* self.data: the in-memory config
    disk,                  \* config.json
    presets,               \* self.presets: ordered name -> {url, cue}
    presetsDisk,           \* presets.json
    now,                   \* the wall clock (time.time(), datetime.now())
    lock,                  \* holder of self.lock between two steps, "free" if none
    pc,                    \* position of the scheduler thread
    idx,                   \* its loop index into the event list
    schedNow,              \* the clock reading _check_scheduled_events took
    wake,                  \* earliest clock reading at which time.sleep(30) ends
    created_events_today,  \* self._created_events_today
    restarts,              \* process restarts so far
    ret,                   \* response of the last request handled
    hist,                  \* the last HistLen calls of the redirect logic
    calls,                 \* remote-API operations of the last step
    recurringCalls,        \* dedup key -> results of its recurring createEvent calls, this run
    manualFired,           \* per manual event (by position): its successful createEvent calls
    lastTickRaised,        \* whether the last tick that ended was left by an exception
    activating             \* the preset a request has set the URL of, clear_timer still to come

vars == <<data, disk, presets, presetsDisk, now, lock, pc, idx, schedNow,
          wake, created_events_today, restarts, ret, hist, calls,
          recurringCalls, manualFired, lastTickRaised, activating>>

schedVars == <<pc, idx, schedNow, wake, created_events_today>>
obsVars == <<recurringCalls, manualFired, lastTickRaised>>

\* -------------------------------------------------------------- wall clock

\* datetime.now() of a clock reading t: the date (days since the first day),
\* and the hour and minute of the day's minute the reading falls into.
MinuteIndex(t) == (t - StartTime) \div TicksPerMinute
Date(t) == MinuteIndex(t) \div MinutesPerDay
Slot(t) == MinuteIndex(t) % MinutesPerDay
SlotHour(s) == CASE s = 0 -> 0 [] s = 1 -> 11 [] OTHER -> 23
SlotMinute(s) == CASE s = 0 -> 0 [] s = 1 -> 0 [] OTHER -> 59
Hour(t) == SlotHour(Slot(t))
Minute(t) == SlotMinute(Slot(t))

sunday == <<"s", "u", "n", "d", "a", "y">>
monday == <<"m", "o", "n", "d", "a", "y">>
tuesday == <<"t", "u", "e", "s", "d", "a", "y">>
wednesday == <<"w", "e", "d", "n", "e", "s", "d", "a", "y">>
thursday == <<"t", "h", "u", "r", "s", "d", "a", "y">>
friday == <<"f", "r", "i", "d", "a", "y">>
saturday == <<"s", "a", "t", "u", "r", "d", "a", "y">>
\* now.strftime("%A"): the first day of the model is a Sunday.
WeekdayName(t) ==
    LET w == Date(t) % 7
        cap(s) == [i \in DOMAIN s |-> IF i = 1 THEN (IF s[1] = "s" THEN "S" ELSE
                                                    IF s[1] = "m" THEN "M" ELSE s[1])
                                      ELSE s[i]]
    IN  cap(CASE w = 0 -> sunday [] w = 1 -> monday [] w = 2 -> tuesday
              [] w = 3 -> wednesday [] w = 4 -> thursday [] w = 5 -> friday
              [] OTHER -> saturday)

\* event_time.split(":")
RECURSIVE Split(_)
Split(s) ==
    IF \A i \in DOMAIN s : s[i] /= ":" THEN <<s>>
    ELSE LET i == CHOOSE k \in DOMAIN s : s[k] = ":" /\ \A j \in 1..(k - 1) : s[j] /= ":"
         IN  <<SubSeq(s, 1, i - 1)>> \o Split(SubSeq(s, i + 1, Len(s)))

\* event_hour, event_min = map(int, event_time.split(":")) on the stored JSON
\* value: <<"ok", h, m>>, <<"ValueError">> (caught by the checks) or
\* <<"AttributeError">> (a value without split(), not caught by them).
ParseTime(j) ==
    IF ~IsStr(j) THEN <<"AttributeError">>
    ELSE LET parts == Split(j[2])
         IN  IF Len(parts) = 2 /\ IsDecimal(parts[1]) /\ IsDecimal(parts[2])
             THEN <<"ok", DecVal(parts[1]), DecVal(parts[2])>>
             ELSE <<"ValueError">>

T0000 == JStr(<<"0", "0", ":", "0", "0">>)
T1100 == JStr(<<"1", "1", ":", "0", "0">>)

\* ---------------------------------------------------------- configuration

ExampleUrl == "https://example.com"
Keys == {"K1", "K2"}
\* The token secrets.token_urlsafe(24) returns at the first start: tokens are
\* only compared for equality, so it is K1 without loss of generality.
FirstKey == "K1"

\* The defaults of __init__, with the API key it generates.
Defaults(key) ==
    [default_url |-> ExampleUrl,
     current_url |-> ExampleUrl,
     expires_at |-> None,
     port |-> 8000,
     api_key_enabled |-> FALSE,
     api_key |-> key,
     supabase_url |-> "",
     supabase_api_key |-> "",
     scheduled_events |-> <<[day |-> sunday, time |-> T1100, enabled |-> TRUE]>>,
     manual_events |-> <<>>]

NoRet == [op |-> "none", status |-> 0, val |-> ""]
Ret(op, status, val) == [op |-> op, status |-> status, val |-> val]
Call(op, url, seconds, val) == [op |-> op, url |-> url, seconds |-> seconds, val |-> val]

Init ==
    /\ data = Defaults(FirstKey)
    /\ disk = data
    /\ presets = <<>>
    /\ presetsDisk = <<>>
    /\ now = StartTime
    /\ lock = "free"
    /\ pc = "sleep"
    /\ idx = 0
    /\ schedNow = StartTime
    /\ wake = StartTime
    /\ created_events_today = {}
    /\ restarts = 0
    /\ ret = NoRet
    /\ hist = <<>>
    /\ calls = <<>>
    /\ recurringCalls = <<>>
    /\ manualFired = <<>>
    /\ lastTickRaised = FALSE
    /\ activating = None

\* time passes
Advance ==
    /\ now < StartTime + MaxNow
    /\ now' = now + 1
    /\ UNCHANGED <<data, disk, presets, presetsDisk, lock, schedVars, restarts,
                   ret, hist, calls, obsVars, activating>>

\* --------------------------------------------------------- redirect logic

\* time.time() > float(expires), behind the truthiness test of expires
Expired(d, t) ==
    /\ ~IsNone(d.expires_at)
    /\ Truthy(Val(d.expires_at))
    /\ t > Val(d.expires_at)

\* get_current_url with the expiry test written >= instead of >
get_current_url_ge(d, t) ==
    LET hit == ~IsNone(d.expires_at) /\ Truthy(Val(d.expires_at)) /\ t >= Val(d.expires_at)
        d2 == IF hit THEN [d EXCEPT !.current_url = d.default_url, !.expires_at = None]
              ELSE d
    IN  [data |-> d2, saved |-> hit, val |-> d2.current_url]

\* RedirectState.get_current_url at clock reading t: the config it leaves,
\* whether it wrote config.json, and the URL it returns.
get_current_url(d, t) ==
    LET d2 == IF Expired(d, t)
              THEN [d EXCEPT !.current_url = d.default_url, !.expires_at = None]
              ELSE d
    IN  [data |-> d2, saved |-> Expired(d, t), val |-> d2.current_url]

\* set_current_url leaving the timer of an earlier set_temp_url running
set_current_url_keeps_timer(d, url) == [d EXCEPT !.current_url = url]
set_current_url(d, url) == [d EXCEPT !.current_url = url, !.expires_at = None]
set_default_url(d, url) == [d EXCEPT !.default_url = url]
\* set_temp_url storing the duration instead of the deadline
set_temp_url_duration(d, url, seconds, t) ==
    [d EXCEPT !.current_url = url, !.expires_at = Some(seconds)]
set_temp_url(d, url, seconds, t) ==
    [d EXCEPT !.current_url = url, !.expires_at = Some(t + seconds)]
clear_timer(d) == [d EXCEPT !.expires_at = None]

Urls == {"u1", "u2"}
\* a missing or empty "url" is the same to the handlers (not url)
UrlInputs == Urls \cup {""}
SecondsInputs == {JNull, JInt(-1), JInt(0), JStr(<<"1">>), JStr(<<"x">>)}

reqFrame == <<presets, presetsDisk, now, lock, schedVars, restarts, calls, obsVars, activating>>

\* GET /redirect
redirect ==
    /\ lock = "free"
    /\ LET r == get_current_url(data, now)
       IN  /\ data' = r.data
           /\ disk' = IF r.saved THEN r.data ELSE disk
           /\ ret' = Ret("redirect", 302, r.val)
           /\ hist' = Remember(hist, Call("get_current_url", "", 0, r.val))
    /\ UNCHANGED reqFrame

\* POST /api/set
api_set_with(url) ==
    /\ lock = "free"
    /\ IF url = ""
       THEN /\ ret' = Ret("api_set", 400, "")
            /\ UNCHANGED <<data, disk, hist>>
       ELSE /\ data' = set_current_url(data, url)
            /\ disk' = data'
            /\ ret' = Ret("api_set", 200, url)
            /\ hist' = Remember(hist, Call("set_current_url", url, 0, ""))
    /\ UNCHANGED reqFrame

api_set == \E url \in UrlInputs : api_set_with(url)

\* POST /api/temp
api_temp_with(url, seconds) ==
    /\ lock = "free"
    /\ IF url = "" \/ seconds = JNull \/ PyInt(seconds)[1] /= "ok"
       THEN /\ ret' = Ret("api_temp", IF url /= "" /\ seconds /= JNull
                                         /\ PyInt(seconds)[1] = "TypeError"
                                      THEN 500 ELSE 400, "")
            /\ UNCHANGED <<data, disk, hist>>
       ELSE LET s == PyInt(seconds)[2]
            IN  /\ data' = set_temp_url(data, url, s, now)
                /\ disk' = data'
                /\ ret' = Ret("api_temp", 200, url)
                /\ hist' = Remember(hist, Call("set_temp_url", url, s, ""))
    /\ UNCHANGED reqFrame

api_temp == \E url \in UrlInputs, seconds \in SecondsInputs : api_temp_with(url, seconds)

\* POST /api/set-default
api_set_default ==
    /\ lock = "free"
    /\ \E url \in UrlInputs :
        IF url = ""
        THEN /\ ret' = Ret("api_set_default", 400, "")
             /\ UNCHANGED <<data, disk, hist>>
        ELSE /\ data' = set_default_url(data, url)
             /\ disk' = data'
             /\ ret' = Ret("api_set_default", 200, url)
             /\ hist' = Remember(hist, Call("set_default_url", url, 0, ""))
    /\ UNCHANGED reqFrame

\* RedirectState.info: the stored fields as they are, no expiry test
info(d) ==
    [current_url |-> d.current_url,
     default_url |-> d.default_url,
     expires_at |-> d.expires_at,
     is_temporary |-> ~IsNone(d.expires_at),
     port |-> d.port,
     api_key_enabled |-> d.api_key_enabled]

\* GET /api/current
api_current ==
    /\ lock = "free"
    /\ ret' = Ret("api_current", 200, info(data))
    /\ UNCHANGED <<data, disk, hist>>
    /\ UNCHANGED reqFrame

NextInfo == redirect \/ api_set \/ api_temp \/ api_current \/ Advance
SpecInfo == Init /\ [][NextInfo]_vars

NextUrl == redirect \/ api_set \/ api_temp \/ api_set_default \/ Advance
SpecUrl == Init /\ [][NextUrl]_vars

\* ------------------------------------------- a write of config.json failing

\* How _save_json can raise OSError: mkdir or open("w") refuses and the
\* document is as it was, or open("w") has emptied the document and
\* json.dump cannot write it out.
WriteFailures == {"refused", "truncated"}
Truncated == [truncated |-> TRUE]
save_json_fails(doc, failure) == IF failure = "refused" THEN doc ELSE Truncated

\* POST /api/set, the write failing: the setter has assigned the fields
\* before it calls _save_json, and nothing catches the OSError
api_set_write_fails(url, failure) ==
    /\ lock = "free"
    /\ data' = set_current_url(data, url)
    /\ disk' = save_json_fails(disk, failure)
    /\ ret' = Ret("api_set", 500, "")
    /\ hist' = Remember(hist, Call("set_current_url", url, 0, ""))
    /\ UNCHANGED reqFrame

\* POST /api/temp, the write failing
api_temp_write_fails(url, seconds, failure) ==
    /\ lock = "free"
    /\ PyInt(seconds)[1] = "ok"
    /\ data' = set_temp_url(data, url, PyInt(seconds)[2], now)
    /\ disk' = save_json_fails(disk, failure)
    /\ ret' = Ret("api_temp", 500, "")
    /\ hist' = Remember(hist, Call("set_temp_url", url, PyInt(seconds)[2], ""))
    /\ UNCHANGED reqFrame

\* POST /api/set-default, the write failing
api_set_default_write_fails(url, failure) ==
    /\ lock = "free"
    /\ data' = set_default_url(data, url)
    /\ disk' = save_json_fails(disk, failure)
    /\ ret' = Ret("api_set_default", 500, "")
    /\ hist' = Remember(hist, Call("set_default_url", url, 0, ""))
    /\ UNCHANGED reqFrame

FailedWrite ==
    \/ \E url \in Urls, f \in WriteFailures : api_set_write_fails(url, f)
    \/ \E url \in Urls, seconds \in SecondsInputs, f \in WriteFailures :
           api_temp_write_fails(url, seconds, f)
    \/ \E url \in Urls, f \in WriteFailures : api_set_default_write_fails(url, f)

NextWrite == redirect \/ api_set \/ Advance \/ FailedWrite
SpecWrite == Init /\ [][NextWrite]_vars

\* ---------------------------------------------------------------- presets

NameAlphabet == {"a", "A", "-", " "}
Names == UNION {[1..n -> NameAlphabet] : n \in 1..MaxNameLen}
\* a missing or empty "name" is the same to the handlers (not name)
NameInputs == Names \cup {<<>>}

Cue1 == [headline |-> "h", body_text |-> "b", button_text |-> "t", button_url |-> "l"]
PresetInputs == {[url |-> "u1", cue |-> None],
                 [url |-> "u2", cue |-> Some(Cue1)],
                 [url |-> "", cue |-> None]}

Entry(name, url, cue) == [name |-> name, url |-> url, cue |-> cue]
HasKey(ps, name) == \E i \in DOMAIN ps : ps[i].name = name
\* d[name] = {...} on an OrderedDict: in place when the key exists, else at the end
DictSet(ps, name, url, cue) ==
    IF HasKey(ps, name)
    THEN [i \in DOMAIN ps |-> IF ps[i].name = name THEN Entry(name, url, cue) ELSE ps[i]]
    ELSE Append(ps, Entry(name, url, cue))
\* del d[name]
RECURSIVE DictDel(_, _)
DictDel(ps, name) ==
    IF ps = <<>> THEN <<>>
    ELSE IF Head(ps).name = name THEN Tail(ps)
    ELSE <<Head(ps)>> \o DictDel(Tail(ps), name)

\* pop the key, then set it: an existing name moves to the end
add_or_update_preset_moved(ps, name, url, cue) == Append(DictDel(ps, name), Entry(name, url, cue))
add_or_update_preset(ps, name, url, cue) == DictSet(ps, name, url, cue)

\* delete_preset finding the name whatever its case
delete_preset_any_case(ps, name) ==
    IF \E i \in DOMAIN ps : Lower(ps[i].name) = Lower(name)
    THEN [presets |-> SelectSeq(ps, LAMBDA e : Lower(e.name) /= Lower(name)), saved |-> TRUE]
    ELSE [presets |-> ps, saved |-> FALSE]

\* the presets delete_preset leaves, and whether it wrote presets.json
delete_preset(ps, name) ==
    IF HasKey(ps, name) THEN [presets |-> DictDel(ps, name), saved |-> TRUE]
    ELSE [presets |-> ps, saved |-> FALSE]

\* the loop of rename_preset: new_presets after the first i entries
RECURSIVE Rebuild(_, _, _, _)
Rebuild(ps, i, old_name, new_name) ==
    IF i = 0 THEN <<>>
    ELSE LET acc == Rebuild(ps, i - 1, old_name, new_name)
         IN  IF ps[i].name = old_name
             THEN DictSet(acc, new_name, ps[i].url, ps[i].cue)
             ELSE DictSet(acc, ps[i].name, ps[i].url, ps[i].cue)

\* the presets rename_preset leaves, and what it returns
rename_preset(ps, old_name, new_name) ==
    IF ~HasKey(ps, old_name) THEN [presets |-> ps, renamed |-> FALSE]
    ELSE [presets |-> Rebuild(ps, Len(ps), old_name, new_name), renamed |-> TRUE]

\* get_preset: None, or the first entry whose lower-cased name is the
\* normalised query
get_preset(ps, name) ==
    LET normalized == Lower(ReplaceDash(name))
        hits == {i \in DOMAIN ps : Lower(ps[i].name) = normalized}
    IN  IF hits = {} THEN None
        ELSE Some(ps[CHOOSE i \in hits : \A j \in hits : i <= j])

presetFrame == <<data, disk, now, lock, schedVars, restarts, hist, calls, obsVars, activating>>

\* POST /api/presets/add
api_add_preset(name, in) ==
    /\ lock = "free"
    /\ IF name = <<>> \/ in.url = ""
       THEN /\ ret' = Ret("api_add_preset", 400, "")
            /\ UNCHANGED <<presets, presetsDisk>>
       ELSE /\ HasKey(presets, name) \/ Len(presets) < MaxPresets
            /\ presets' = add_or_update_preset(presets, name, in.url, in.cue)
            /\ presetsDisk' = presets'
            /\ ret' = Ret("api_add_preset", 200, "")
    /\ UNCHANGED presetFrame

\* POST /api/presets/delete
api_delete_preset(name) ==
    /\ lock = "free"
    /\ IF name = <<>>
       THEN /\ ret' = Ret("api_delete_preset", 400, "")
            /\ UNCHANGED <<presets, presetsDisk>>
       ELSE LET r == delete_preset(presets, name)
            IN  /\ presets' = r.presets
                /\ presetsDisk' = IF r.saved THEN r.presets ELSE presetsDisk
                /\ ret' = Ret("api_delete_preset", 200, "")
    /\ UNCHANGED presetFrame

\* POST /api/presets/rename
api_rename_preset(old, new) ==
    /\ lock = "free"
    /\ IF old = <<>> \/ new = <<>>
       THEN /\ ret' = Ret("api_rename_preset", 400, FALSE)
            /\ UNCHANGED <<presets, presetsDisk>>
       ELSE LET r == rename_preset(presets, old, new)
            IN  /\ presets' = r.presets
                /\ presetsDisk' = IF r.renamed THEN r.presets ELSE presetsDisk
                /\ ret' = Ret("api_rename_preset", 200, r.renamed)
    /\ UNCHANGED presetFrame

\* -------------------------------------------------------------- remote API

Outcomes == {"accepted", "rejected", "error"}

\* get_supabase_config()["configured"]
Configured_url_only(d) == d.supabase_url /= ""
Configured(d) == d.supabase_url /= "" /\ d.supabase_api_key /= ""

\* what requests.post raises under an outcome ("" when it returns), and
\* "except requests.exceptions.RequestException" around it
Raises(outcome) == IF outcome = "error" THEN "RequestException" ELSE ""
CaughtRemote(exc) == exc \in {"", "RequestException"}

\* A remote-API operation: who asked (and whether holding self.lock), what
\* for, the HTTP requests it sent and the result it returned.
\* whether the caller holds self.lock around the call: only the manual check
\* calls from inside its "with self.lock" block
HoldsLock(by) == by = "manual"

RemoteCall(op, by, arg, http, ok) ==
    [op |-> op, by |-> by, locked |-> HoldsLock(by), arg |-> arg, http |-> http, ok |-> ok,
     raised |-> FALSE]

\* the body post_cue_to_supabase sends: the cue's fields, empty ones for a
\* preset without cue
cue_payload(preset_name, cue) ==
    IF IsNone(cue)
    THEN [cue_type |-> preset_name, headline |-> "", body_text |-> "",
          button_text |-> "", button_url |-> ""]
    ELSE [cue_type |-> preset_name, headline |-> Val(cue).headline,
          body_text |-> Val(cue).body_text, button_text |-> Val(cue).button_text,
          button_url |-> Val(cue).button_url]

\* a cue call: a remote operation with the body it sent, if it sent one
CueCall(preset_name, http, ok, payload) ==
    RemoteCall("publishCue", "request", preset_name, http, ok) @@ [payload |-> payload]

\* post_cue_to_supabase returning without a request for a preset without cue
post_cue_to_supabase_skips_hide(d, preset_name, cue, outcome) ==
    IF ~Configured(d) \/ IsNone(cue) THEN CueCall(preset_name, 0, FALSE, None)
    ELSE [CueCall(preset_name, 1, outcome = "accepted", Some(cue_payload(preset_name, cue)))
             EXCEPT !.raised = ~CaughtRemote(Raises(outcome))]

\* post_cue_to_supabase under a given outcome of requests.post
post_cue_to_supabase(d, preset_name, cue, outcome) ==
    IF ~Configured(d) THEN CueCall(preset_name, 0, FALSE, None)
    ELSE [CueCall(preset_name, 1, outcome = "accepted", Some(cue_payload(preset_name, cue)))
             EXCEPT !.raised = ~CaughtRemote(Raises(outcome))]

\* _update_event_start_time letting the exception of requests.patch through
update_event_start_time_unguarded(d, outcome) ==
    IF ~Configured(d) THEN [http |-> 0, raises |-> ""]
    ELSE [http |-> 1, raises |-> Raises(outcome)]

\* _update_event_start_time under a given outcome of requests.patch: the
\* requests it sent and the exception that leaves it ("" when it returns);
\* the response is not looked at, a RequestException is passed over
update_event_start_time(d, outcome) ==
    IF ~Configured(d) THEN [http |-> 0, raises |-> ""]
    ELSE [http |-> 1,
          raises |-> IF Raises(outcome) = "RequestException" THEN "" ELSE Raises(outcome)]

\* a create call: a remote operation with what became of its start-time
\* update ("none" when no update was sent)
CreateCall(by, arg, http, ok, followup) ==
    RemoteCall("createEvent", by, arg, http, ok) @@ [followup |-> followup]

\* create_event_in_supabase under a given outcome of requests.post and, for
\* the start-time update inside its try block, of requests.patch; start_time
\* is None when the caller gave none
create_event_in_supabase_with(d, by, arg, start_time, outcome, followup) ==
    IF ~Configured(d) THEN CreateCall(by, arg, 0, FALSE, "none")
    ELSE IF outcome /= "accepted"
    THEN [CreateCall(by, arg, 1, FALSE, "none")
             EXCEPT !.raised = ~CaughtRemote(Raises(outcome))]
    ELSE IF IsNone(start_time) THEN CreateCall(by, arg, 1, TRUE, "none")
    ELSE LET u == update_event_start_time(d, followup)
         IN  IF u.raises = "" THEN CreateCall(by, arg, 1 + u.http, TRUE, followup)
             ELSE [CreateCall(by, arg, 1 + u.http, FALSE, followup)
                      EXCEPT !.raised = ~CaughtRemote(u.raises)]

\* the call as the two checks make it: start_time is always given
create_event_in_supabase(d, by, arg, outcome) ==
    create_event_in_supabase_with(d, by, arg, Some(arg), outcome, "accepted")

\* ------------------------------------------------------ preset activation

\* the caller's key: absent, or a string
KeyInputs == {None} \cup {Some(k) : k \in Keys}

Activated(p, cueCall) ==
    [active_preset |-> p.name, active_url |-> p.url, cue_posted |-> cueCall.ok]

\* get_preset .. post_cue_to_supabase, shared by the two activation routes
Activate(op, name, outcome) ==
    LET found == get_preset(presets, name)
    IN  IF IsNone(found)
        THEN /\ ret' = Ret(op, 404, "")
             /\ UNCHANGED <<data, disk, hist, calls>>
        ELSE LET p == Val(found)
                 d2 == clear_timer(set_current_url(data, p.url))
                 c == post_cue_to_supabase(d2, p.name, p.cue, outcome)
             IN  /\ data' = d2
                 /\ disk' = d2
                 /\ hist' = Remember(Remember(hist, Call("set_current_url", p.url, 0, "")),
                                     Call("clear_timer", "", 0, ""))
                 /\ calls' = <<c>>
                 /\ ret' = IF c.raised THEN Ret(op, 500, "") ELSE Ret(op, 200, Activated(p, c))

activateFrame == <<presets, presetsDisk, now, lock, schedVars, restarts, obsVars, activating>>

\* POST /api/preset/activate; key is what the body may carry as a key, which
\* the handler never reads
api_activate_preset(name, key, outcome) ==
    /\ lock = "free" \/ name = <<>> \/ IsNone(get_preset(presets, name))
    /\ Configured(data) \/ outcome = "accepted"
    /\ IF name = <<>>
       THEN /\ ret' = Ret("api_activate_preset", 400, "")
            /\ UNCHANGED <<data, disk, hist, calls>>
       ELSE Activate("api_activate_preset", name, outcome)
    /\ UNCHANGED activateFrame

\* GET /preset/{preset_name}?key=
activate_preset_by_url(name, key, outcome) ==
    /\ lock = "free"
    /\ Configured(data) \/ outcome = "accepted"
    /\ name /= <<>>
    /\ IF data.api_key_enabled /\ (IsNone(key) \/ Val(key) = "" \/ Val(key) /= data.api_key)
       THEN /\ ret' = Ret("activate_preset_by_url", 401, "")
            /\ UNCHANGED <<data, disk, hist, calls>>
       ELSE Activate("activate_preset_by_url", name, outcome)
    /\ UNCHANGED activateFrame

NextPresets ==
    \/ \E name \in NameInputs, in \in PresetInputs : api_add_preset(name, in)
    \/ \E name \in NameInputs : api_delete_preset(name)
    \/ \E old, new \in NameInputs : api_rename_preset(old, new)
    \/ \E name \in NameInputs : api_activate_preset(name, None, "accepted")
SpecPresets == Init /\ [][NextPresets]_vars

\* ------------------------------------------------ preset activation, by step

stepFrame == <<presets, presetsDisk, now, lock, schedVars, restarts, obsVars>>

\* the handler up to the end of state.set_current_url(preset["url"]): the
\* lock is taken for that call and released when it returns
api_activate_preset_set_url(name) ==
    /\ lock = "free"
    /\ IsNone(activating)
    /\ name /= <<>>
    /\ ~IsNone(get_preset(presets, name))
    /\ LET p == Val(get_preset(presets, name))
       IN  /\ data' = set_current_url(data, p.url)
           /\ disk' = data'
           /\ hist' = Remember(hist, Call("set_current_url", p.url, 0, ""))
           /\ activating' = Some(p)
    /\ UNCHANGED <<ret, calls, stepFrame>>

\* the rest of the handler: state.clear_timer() takes the lock again, then
\* the cue is posted and the request is answered
api_activate_preset_clear_timer(outcome) ==
    /\ lock = "free"
    /\ ~IsNone(activating)
    /\ Configured(data) \/ outcome = "accepted"
    /\ LET p == Val(activating)
           d2 == clear_timer(data)
           c == post_cue_to_supabase(d2, p.name, p.cue, outcome)
       IN  /\ data' = d2
           /\ disk' = d2
           /\ hist' = Remember(hist, Call("clear_timer", "", 0, ""))
           /\ calls' = <<c>>
           /\ ret' = IF c.raised THEN Ret("api_activate_preset", 500, "")
                     ELSE Ret("api_activate_preset", 200, Activated(p, c))
           /\ activating' = None
    /\ UNCHANGED stepFrame

NextStep ==
    \/ \E in \in PresetInputs : api_add_preset(<<"a">>, in)
    \/ \E name \in Names : api_activate_preset_set_url(name)
    \/ api_activate_preset_clear_timer("accepted")
    \/ api_temp
    \/ redirect
    \/ Advance
SpecStep == Init /\ [][NextStep]_vars

\* ------------------------------------ preset registry and self.lock, by step

\* the preset writers: each holds self.lock from its change of self.presets
\* to the end of its _save_json
PresetWriters == {"add_or_update_preset", "delete_preset", "rename_preset"}

lockFrame == <<data, disk, now, schedVars, restarts, hist, calls, obsVars, activating>>

\* add_or_update_preset has taken the lock and changed self.presets
add_or_update_preset_enter(name, in) ==
    /\ lock = "free"
    /\ name /= <<>> /\ in.url /= ""
    /\ HasKey(presets, name) \/ Len(presets) < MaxPresets
    /\ presets' = add_or_update_preset(presets, name, in.url, in.cue)
    /\ lock' = "add_or_update_preset"
    /\ UNCHANGED <<presetsDisk, ret, lockFrame>>

\* delete_preset has taken the lock and deleted a stored name
delete_preset_enter(name) ==
    /\ lock = "free"
    /\ HasKey(presets, name)
    /\ presets' = delete_preset(presets, name).presets
    /\ lock' = "delete_preset"
    /\ UNCHANGED <<presetsDisk, ret, lockFrame>>

\* rename_preset has taken the lock and replaced self.presets
rename_preset_enter(old_name, new_name) ==
    /\ lock = "free"
    /\ new_name /= <<>>
    /\ HasKey(presets, old_name)
    /\ presets' = rename_preset(presets, old_name, new_name).presets
    /\ lock' = "rename_preset"
    /\ UNCHANGED <<presetsDisk, ret, lockFrame>>

\* the writer's _save_json ends, the lock is released and the handler answers
save_presets_exit ==
    /\ lock \in PresetWriters
    /\ presetsDisk' = presets
    /\ lock' = "free"
    /\ ret' = CASE lock = "add_or_update_preset" -> Ret("api_add_preset", 200, "")
                [] lock = "delete_preset" -> Ret("api_delete_preset", 200, "")
                [] OTHER -> Ret("api_rename_preset", 200, TRUE)
    /\ UNCHANGED <<presets, lockFrame>>

\* GET /api/presets: get_presets returns self.presets, no lock taken
api_get_presets ==
    /\ ret' = Ret("api_get_presets", 200, presets)
    /\ UNCHANGED <<presets, presetsDisk, lock, lockFrame>>

NextLock ==
    \/ \E name \in Names, in \in PresetInputs : add_or_update_preset_enter(name, in)
    \/ \E name \in Names : delete_preset_enter(name)
    \/ \E old, new \in Names : rename_preset_enter(old, new)
    \/ save_presets_exit
    \/ api_get_presets
    \/ \E name \in NameInputs : api_activate_preset(name, None, "accepted")
SpecLock == Init /\ [][NextLock]_vars

\* ------------------------------------------------- security, port, remote

configFrame == <<presets, presetsDisk, now, lock, schedVars, restarts, hist, calls, obsVars, activating>>

\* POST /api/security/toggle
api_security_toggle(enabled) ==
    /\ lock = "free"
    /\ IF IsNone(enabled)
       THEN /\ ret' = Ret("api_security_toggle", 400, "")
            /\ UNCHANGED <<data, disk>>
       ELSE /\ data' = [data EXCEPT !.api_key_enabled = Val(enabled)]
            /\ disk' = data'
            /\ ret' = Ret("api_security_toggle", 200, "")
    /\ UNCHANGED configFrame

\* POST /api/security/set-key
api_security_set_key(api_key) ==
    /\ lock = "free"
    /\ IF api_key = ""
       THEN /\ ret' = Ret("api_security_set_key", 400, "")
            /\ UNCHANGED <<data, disk>>
       ELSE /\ data' = [data EXCEPT !.api_key = api_key]
            /\ disk' = data'
            /\ ret' = Ret("api_security_set_key", 200, "")
    /\ UNCHANGED configFrame

\* POST /api/security/regenerate
api_security_regenerate ==
    /\ lock = "free"
    /\ \E key \in Keys :
        /\ data' = [data EXCEPT !.api_key = key]
        /\ disk' = data'
        /\ ret' = Ret("api_security_regenerate", 200, key)
    /\ UNCHANGED configFrame

PortInputs == {JNull, JInt(80), JInt(8080), JStr(<<"9", "0", "0", "0">>), JStr(<<"x">>)}

\* POST /api/port
api_set_port(port) ==
    /\ lock = "free"
    /\ IF port = JNull \/ PyInt(port)[1] /= "ok"
       THEN /\ ret' = Ret("api_set_port", IF port /= JNull /\ PyInt(port)[1] = "TypeError"
                                          THEN 500 ELSE 400, "")
            /\ UNCHANGED <<data, disk>>
       ELSE IF ~(1024 <= PyInt(port)[2] /\ PyInt(port)[2] <= 65535)
       THEN /\ ret' = Ret("api_set_port", 400, "")
            /\ UNCHANGED <<data, disk>>
       ELSE /\ data' = [data EXCEPT !.port = PyInt(port)[2]]
            /\ disk' = data'
            /\ ret' = Ret("api_set_port", 200, "")
    /\ UNCHANGED configFrame

\* Requests with numbers that are not integers, beside the others.
FractionSeconds == {JFloat(1, 5), JFloat(1, 0)}
FractionPorts == {JFloat(8080, 5), JFloat(80, 5)}

NextValidation ==
    \/ api_set
    \/ api_set_default
    \/ \E url \in UrlInputs, seconds \in SecondsInputs \cup FractionSeconds :
           api_temp_with(url, seconds)
    \/ \E port \in PortInputs \cup FractionPorts : api_set_port(port)
SpecValidation == Init /\ [][NextValidation]_vars

SupabaseInputs == {<<"sb", "sk">>, <<"", "">>}

\* POST /api/supabase/config
api_set_supabase_config(url, api_key) ==
    /\ lock = "free"
    /\ data' = [data EXCEPT !.supabase_url = url, !.supabase_api_key = api_key]
    /\ disk' = data'
    /\ ret' = Ret("api_set_supabase_config", 200, "")
    /\ UNCHANGED configFrame

\* the "enabled" field of a toggle request: missing, or a boolean
EnabledInputs == {None, Some(TRUE), Some(FALSE)}

NextGate ==
    \/ \E enabled \in EnabledInputs : api_security_toggle(enabled)
    \/ \E api_key \in Keys \cup {""} : api_security_set_key(api_key)
    \/ api_security_regenerate
    \/ \E name \in NameInputs, in \in PresetInputs : api_add_preset(name, in)
    \/ \E name \in NameInputs, key \in KeyInputs : api_activate_preset(name, key, "accepted")
    \/ \E name \in Names, key \in KeyInputs : activate_preset_by_url(name, key, "accepted")
SpecGate == Init /\ [][NextGate]_vars

\* ------------------------------------------------------------------ events

valid_days == {sunday, monday, tuesday, wednesday, thursday, friday, saturday}
Monday == <<"M", "o", "n", "d", "a", "y">>
funday == <<"f", "u", "n", "d", "a", "y">>

\* Bodies of the scheduled-event requests: day (<<>> when missing), time (any
\* JSON value) and enabled.
SchedReq(day, time_str, enabled) == [day |-> day, time |-> time_str, enabled |-> enabled]
ScheduledRequests ==
    {SchedReq(sunday, T0000, TRUE), SchedReq(sunday, JInt(1100), TRUE),
     SchedReq(Monday, T0000, TRUE), SchedReq(sunday, T0000, FALSE),
     SchedReq(sunday, JStr(<<"x">>), TRUE),
     SchedReq(<<>>, T0000, TRUE), SchedReq(funday, T0000, TRUE),
     SchedReq(sunday, JNull, TRUE)}

\* Bodies of the manual-event requests: date (the date string of a day, None
\* when missing) and time (any JSON value).
ManualReq(date, time_str) == [date |-> date, time |-> time_str]
ManualRequests ==
    {ManualReq(Some(0), T0000), ManualReq(Some(0), T1100), ManualReq(Some(0), JInt(1100)),
     ManualReq(Some(0), JStr(<<"x">>)), ManualReq(Some(1), T0000),
     ManualReq(None, T0000), ManualReq(Some(0), JNull)}

\* Python truthiness of a JSON value
JTruthy(j) == CASE j[1] = "null" -> FALSE
                [] j[1] = "int" -> j[2] /= 0
                [] j[1] = "float" -> j[2] /= 0 \/ j[3] /= 0
                [] OTHER -> Len(j[2]) > 0

\* the record of results f with result r added for key k
Noted(f, k, r) == IF k \in DOMAIN f THEN [f EXCEPT ![k] = Append(@, r)] ELSE f @@ (k :> <<r>>)

RemoveAt(s, i) == SubSeq(s, 1, i - 1) \o SubSeq(s, i + 1, Len(s))

add_scheduled_event(d, day, time_str, enabled) ==
    [d EXCEPT !.scheduled_events =
        Append(@, [day |-> Lower(day), time |-> time_str, enabled |-> enabled])]

\* index counts from 0, as in the code
\* events.pop(index) guarded by index < len(events) alone: Python counts a
\* negative index from the end of the list
remove_scheduled_event_from_end(d, index) ==
    IF index < Len(d.scheduled_events) /\ -index <= Len(d.scheduled_events)
    THEN [data |-> [d EXCEPT !.scheduled_events =
                        RemoveAt(@, IF index < 0 THEN Len(@) + index + 1 ELSE index + 1)],
          ok |-> TRUE]
    ELSE [data |-> d, ok |-> FALSE]

remove_scheduled_event(d, index) ==
    IF 0 <= index /\ index < Len(d.scheduled_events)
    THEN [data |-> [d EXCEPT !.scheduled_events = RemoveAt(@, index + 1)], ok |-> TRUE]
    ELSE [data |-> d, ok |-> FALSE]

update_scheduled_event(d, index, day, time_str, enabled) ==
    IF 0 <= index /\ index < Len(d.scheduled_events)
    THEN [data |-> [d EXCEPT !.scheduled_events[index + 1] =
                        [day |-> Lower(day), time |-> time_str, enabled |-> enabled]],
          ok |-> TRUE]
    ELSE [data |-> d, ok |-> FALSE]

add_manual_event(d, date, time_str) ==
    [d EXCEPT !.manual_events =
        Append(@, [date |-> date, time |-> time_str, created |-> FALSE])]

remove_manual_event(d, index) ==
    IF 0 <= index /\ index < Len(d.manual_events)
    THEN [data |-> [d EXCEPT !.manual_events = RemoveAt(@, index + 1)], ok |-> TRUE]
    ELSE [data |-> d, ok |-> FALSE]

eventFrame == <<presets, presetsDisk, now, lock, schedVars, restarts, hist, calls,
                recurringCalls, lastTickRaised, activating>>

\* POST /api/events/scheduled/add
api_add_scheduled_event(day, time_str, enabled) ==
    /\ lock = "free"
    /\ IF day = <<>> \/ ~JTruthy(time_str) \/ Lower(day) \notin valid_days
       THEN /\ ret' = Ret("api_add_scheduled_event", 400, "")
            /\ UNCHANGED <<data, disk>>
       ELSE /\ Len(data.scheduled_events) < MaxScheduled
            /\ data' = add_scheduled_event(data, day, time_str, enabled)
            /\ disk' = data'
            /\ ret' = Ret("api_add_scheduled_event", 200, "ok")
    /\ UNCHANGED <<eventFrame, manualFired>>

\* POST /api/events/scheduled/update
api_update_scheduled_event(index, day, time_str, enabled) ==
    /\ lock = "free"
    /\ IF day = <<>> \/ ~JTruthy(time_str)
       THEN /\ ret' = Ret("api_update_scheduled_event", 400, "")
            /\ UNCHANGED <<data, disk>>
       ELSE LET r == update_scheduled_event(data, index, day, time_str, enabled)
            IN  /\ data' = r.data
                /\ disk' = IF r.ok THEN r.data ELSE disk
                /\ ret' = Ret("api_update_scheduled_event", 200,
                              IF r.ok THEN "ok" ELSE "error")
    /\ UNCHANGED <<eventFrame, manualFired>>

\* POST /api/events/scheduled/delete
api_delete_scheduled_event(index) ==
    /\ lock = "free"
    /\ LET r == remove_scheduled_event(data, index)
       IN  /\ data' = r.data
           /\ disk' = IF r.ok THEN r.data ELSE disk
           /\ ret' = Ret("api_delete_scheduled_event", 200, IF r.ok THEN "ok" ELSE "error")
    /\ UNCHANGED <<eventFrame, manualFired>>

\* POST /api/events/manual/add
api_add_manual_event(date, time_str) ==
    /\ lock = "free"
    /\ IF IsNone(date) \/ ~JTruthy(time_str)
       THEN /\ ret' = Ret("api_add_manual_event", 400, "")
            /\ UNCHANGED <<data, disk, manualFired>>
       ELSE /\ Len(data.manual_events) < MaxManual
            /\ data' = add_manual_event(data, Val(date), time_str)
            /\ disk' = data'
            /\ manualFired' = Append(manualFired, 0)
            /\ ret' = Ret("api_add_manual_event", 200, "ok")
    /\ UNCHANGED eventFrame

\* POST /api/events/manual/delete
api_delete_manual_event(index) ==
    /\ lock = "free"
    /\ LET r == remove_manual_event(data, index)
       IN  /\ data' = r.data
           /\ disk' = IF r.ok THEN r.data ELSE disk
           /\ manualFired' = IF r.ok THEN RemoveAt(manualFired, index + 1) ELSE manualFired
           /\ ret' = Ret("api_delete_manual_event", 200, IF r.ok THEN "ok" ELSE "error")
    /\ UNCHANGED eventFrame

\* --------------------------------------------------------------- scheduler

\* What _check_scheduled_events does with one event at the clock reading t
\* its check took: "skip" (disabled, another day, another minute, ValueError,
\* key already recorded), "raise" (AttributeError) or "create".
ScheduledVerdict(e, t, createdToday) ==
    IF ~e.enabled THEN "skip"
    ELSE IF Lower(e.day) /= Lower(WeekdayName(t)) THEN "skip"
    ELSE LET hm == ParseTime(e.time)
         IN  IF hm[1] = "AttributeError" THEN "raise"
             ELSE IF hm[1] = "ValueError" THEN "skip"
             ELSE IF ~(Hour(t) = hm[2] /\ Minute(t) = hm[3]) THEN "skip"
             ELSE IF <<Date(t), e.time>> \in createdToday THEN "skip"
             ELSE "create"

\* What _check_manual_events does with one event.
ManualVerdict(e, t) ==
    IF e.created THEN "skip"
    ELSE IF e.date /= Date(t) THEN "skip"
    ELSE LET hm == ParseTime(e.time)
         IN  IF hm[1] = "AttributeError" THEN "raise"
             ELSE IF hm[1] = "ValueError" THEN "skip"
             ELSE IF ~(Hour(t) = hm[2] /\ Minute(t) = hm[3]) THEN "skip"
             ELSE "create"

\* success = create_event_in_supabase(..); if success: add the key
mark_created_always(createdToday, key, success) == createdToday \cup {key}
mark_created(createdToday, key, success) ==
    IF success THEN createdToday \cup {key} ELSE createdToday

\* the clear at the end of _check_scheduled_events
ClearAtMidnight(createdToday, t) ==
    IF Hour(t) = 0 /\ Minute(t) = 0 THEN {} ELSE createdToday

\* The loop of _check_manual_events from event i on, at clock reading t, the
\* i-th remote call ending as outs[i]: the events it leaves, its changed
\* flag, whether an exception left it, and the createEvent calls it made.
RECURSIVE ManualLoop(_, _, _, _, _, _, _)
ManualLoop(d, events, i, t, outs, changed, made) ==
    IF i > Len(events)
    THEN [events |-> events, changed |-> changed, raised |-> FALSE, calls |-> made]
    ELSE LET v == ManualVerdict(events[i], t)
             c == create_event_in_supabase(d, "manual", <<events[i].date, events[i].time>>,
                                           outs[i])
         IN  IF v = "raise"
             THEN [events |-> events, changed |-> changed, raised |-> TRUE, calls |-> made]
             ELSE IF v = "skip"
             THEN ManualLoop(d, events, i + 1, t, outs, changed, made)
             ELSE ManualLoop(d,
                             IF c.ok THEN [events EXCEPT ![i].created = TRUE] ELSE events,
                             i + 1, t, outs, changed \/ c.ok, Append(made, c))

\* _check_manual_events at clock reading t: the config it leaves, whether it
\* wrote config.json (the save after the loop, skipped by an exception), and
\* its createEvent calls.
check_manual_events(d, t, outs) ==
    LET r == ManualLoop(d, d.manual_events, 1, t, outs, FALSE, <<>>)
    IN  [data |-> [d EXCEPT !.manual_events = r.events],
         saved |-> r.changed /\ ~r.raised,
         raised |-> r.raised,
         calls |-> r.calls]

tickFrame == <<presets, presetsDisk, now, lock, restarts, ret, hist, activating>>

\* the exception classes the checks can raise, and "except Exception" in
\* _scheduler_loop: whether the loop catches one
ExceptionClasses == {"ValueError", "AttributeError", "TypeError", "OSError"}
Caught_ValueError(exc) == exc = "ValueError"
Caught(exc) == exc \in ExceptionClasses

\* where the scheduler thread is after a check raised exc: at time.sleep(30),
\* or ended when the loop lets the exception through
AfterRaise(exc) == IF Caught(exc) THEN "sleep" ELSE "dead"

\* time.sleep(30) is over: _check_scheduled_events reads the clock and the list
StartTick ==
    /\ pc = "sleep"
    /\ lock = "free"
    /\ now >= wake
    /\ pc' = "scheduled"
    /\ idx' = 0
    /\ schedNow' = now
    /\ calls' = <<>>
    /\ UNCHANGED <<data, disk, wake, created_events_today, obsVars, tickFrame>>

\* One iteration of the loop of _check_scheduled_events over the live list
\* (no lock held).  An AttributeError leaves the check and the tick: the loop
\* of _scheduler_loop prints it and sleeps.
ScheduledStepWith(outcome, followup) ==
    /\ pc = "scheduled"
    /\ lock = "free"
    /\ idx < Len(data.scheduled_events)
    /\ LET e == data.scheduled_events[idx + 1]
           v == ScheduledVerdict(e, schedNow, created_events_today)
           key == <<Date(schedNow), e.time>>
           c == create_event_in_supabase_with(data, "scheduled", key, Some(key), outcome,
                                              followup)
       IN  /\ (v = "create" /\ Configured(data)) \/ outcome = "accepted"
           /\ (v = "create" /\ Configured(data) /\ outcome = "accepted")
                  \/ followup = "accepted"
           /\ calls' = IF v = "create" THEN <<c>> ELSE <<>>
           /\ created_events_today' =
                  IF v = "create" THEN mark_created(created_events_today, key, c.ok)
                  ELSE created_events_today
           /\ recurringCalls' =
                  IF v = "create" THEN Noted(recurringCalls, key, c.ok) ELSE recurringCalls
           /\ pc' = IF v = "raise" THEN AfterRaise("AttributeError") ELSE "scheduled"
           /\ idx' = IF v = "raise" THEN 0 ELSE idx + 1
           /\ wake' = IF v = "raise" THEN now + 1 ELSE wake
           /\ lastTickRaised' = IF v = "raise" THEN TRUE ELSE lastTickRaised
    /\ UNCHANGED <<data, disk, schedNow, manualFired, tickFrame>>

\* the iteration with the start-time update accepted
ScheduledStep(outcome) == ScheduledStepWith(outcome, "accepted")

\* The loop is over: the midnight clear, then the whole of
\* _check_manual_events under self.lock (no other holder of the lock runs
\* inside it), then time.sleep(30).
FinishTick(outs) ==
    /\ pc = "scheduled"
    /\ lock = "free"
    /\ idx >= Len(data.scheduled_events)
    /\ \A i \in DOMAIN outs :
           (/\ i <= Len(data.manual_events)
            /\ ManualVerdict(data.manual_events[i], now) = "create"
            /\ Configured(data)) \/ outs[i] = "accepted"
    /\ LET r == check_manual_events(data, now, outs)
       IN  /\ data' = r.data
           /\ disk' = IF r.saved THEN r.data ELSE disk
           /\ calls' = r.calls
           /\ manualFired' =
                  [i \in DOMAIN manualFired |->
                      IF r.data.manual_events[i].created /\ ~data.manual_events[i].created
                      THEN manualFired[i] + 1 ELSE manualFired[i]]
           /\ pc' = IF r.raised THEN AfterRaise("AttributeError") ELSE "sleep"
           /\ lastTickRaised' = r.raised
    /\ created_events_today' = ClearAtMidnight(created_events_today, schedNow)
    /\ idx' = 0
    /\ wake' = now + 1
    /\ UNCHANGED <<schedNow, recurringCalls, tickFrame>>

\* The process is stopped while the scheduler sleeps and started again:
\* __init__ loads both documents and starts a new scheduler thread, whose
\* first check runs at once.
Restart ==
    /\ pc = "sleep"
    /\ lock = "free"
    /\ restarts < MaxRestarts
    /\ restarts' = restarts + 1
    /\ data' = disk
    /\ presets' = presetsDisk
    /\ created_events_today' = {}
    /\ recurringCalls' = <<>>
    /\ lastTickRaised' = FALSE
    /\ wake' = now
    /\ ret' = NoRet
    /\ hist' = <<>>
    /\ calls' = <<>>
    /\ activating' = None
    /\ UNCHANGED <<disk, presetsDisk, now, lock, pc, idx, schedNow, manualFired>>

Tick ==
    \/ StartTick
    \/ \E outcome \in Outcomes : ScheduledStep(outcome)
    \/ \E outs \in [1..MaxManual -> Outcomes] : FinishTick(outs)

IndexInputs == -1..2

NextScheduled ==
    \/ Tick
    \/ Advance
    \/ \E in \in SupabaseInputs : api_set_supabase_config(in[1], in[2])
    \/ \E r \in ScheduledRequests : api_add_scheduled_event(r.day, r.time, r.enabled)
    \/ \E index \in IndexInputs : api_delete_scheduled_event(index)
SpecScheduled == Init /\ [][NextScheduled]_vars

NextManual ==
    \/ Tick
    \/ Advance
    \/ Restart
    \/ \E in \in SupabaseInputs : api_set_supabase_config(in[1], in[2])
    \/ \E r \in ManualRequests : api_add_manual_event(r.date, r.time)
    \/ \E index \in IndexInputs : api_delete_manual_event(index)
SpecManual == Init /\ [][NextManual]_vars

\* ------------------------------------------------- __init__: the two loads

\* What a start can find in place of a document: no file, a file json.load
\* cannot parse (Truncated), or a JSON list.  A config document that is a
\* mapping is a record of the keys it has; a presets document that is a
\* mapping is the sequence of its entries, each a record of its name and of
\* what its value is: str (a bare string), url and cue (an object), or num.
MissingDoc == [missing |-> TRUE]
ListDoc == [list |-> TRUE]
NotObject(doc) == <<doc>>

Unreadable(doc) == "missing" \in DOMAIN doc \/ "truncated" \in DOMAIN doc
IsList(doc) == "list" \in DOMAIN doc
Get(d, k, default) == IF k \in DOMAIN d THEN d[k] ELSE default

\* _load_json: the default for a file that is missing or does not parse
load_json(doc, default) == IF Unreadable(doc) THEN default ELSE doc

\* the defaults of __init__, whose api_key is None
InitDefaults == Defaults("")

\* "Ensure all keys exist", then "Ensure api_key exists" with key the token
\* _generate_api_key returns
ensure_keys(d, key) ==
    [default_url |-> Get(d, "default_url", InitDefaults.default_url),
     current_url |-> Get(d, "current_url", InitDefaults.current_url),
     expires_at |-> Get(d, "expires_at", InitDefaults.expires_at),
     port |-> Get(d, "port", InitDefaults.port),
     api_key_enabled |-> Get(d, "api_key_enabled", InitDefaults.api_key_enabled),
     api_key |-> IF Get(d, "api_key", "") = "" THEN key ELSE d.api_key,
     supabase_url |-> Get(d, "supabase_url", InitDefaults.supabase_url),
     supabase_api_key |-> Get(d, "supabase_api_key", InitDefaults.supabase_api_key),
     scheduled_events |-> Get(d, "scheduled_events", InitDefaults.scheduled_events),
     manual_events |-> Get(d, "manual_events", InitDefaults.manual_events)]

\* the config part of __init__ over the document doc: "TypeError" when
\* self.data[key] = default_value is applied to a list, otherwise the config
\* and whether it was changed and so saved
load_config(doc, key) ==
    LET loaded == load_json(doc, InitDefaults)
    IN  IF IsList(loaded)
        THEN [raised |-> "TypeError", data |-> loaded, changed |-> FALSE]
        ELSE [raised |-> "", data |-> ensure_keys(loaded, key),
              changed |-> DOMAIN loaded /= DOMAIN InitDefaults
                          \/ Get(loaded, "api_key", "") = ""]

\* the loop over raw_presets.items(): a bare string is wrapped, an object
\* with a url keeps its url and its cue, anything else is skipped
keep_all(e) == TRUE
kept(e) == "str" \in DOMAIN e \/ "url" \in DOMAIN e
normalise(e) ==
    IF "str" \in DOMAIN e THEN Entry(e.name, e.str, None)
    ELSE Entry(e.name, Get(e, "url", ""), Get(e, "cue", None))

RECURSIVE normalise_all(_)
normalise_all(raw) ==
    IF raw = <<>> THEN <<>>
    ELSE (IF kept(Head(raw)) THEN <<normalise(Head(raw))>> ELSE <<>>)
         \o normalise_all(Tail(raw))

\* the presets part of __init__ over the document doc: "AttributeError" when
\* .items() is applied to a list, otherwise the presets and whether
\* raw_presets != self.presets, so that they were saved
load_presets(doc) ==
    LET plain == Len(doc) = 1 /\ "name" \notin DOMAIN doc[1]
    IN  IF plain /\ IsList(doc[1])
        THEN [raised |-> "AttributeError", presets |-> <<>>, changed |-> FALSE]
        ELSE LET raw == IF plain THEN load_json(doc[1], <<>>) ELSE doc
             IN  [raised |-> "", presets |-> normalise_all(raw),
                  changed |-> raw /= normalise_all(raw)]

\* The process is started over the documents config and presets_doc:
\* __init__ from its first line to the start of the scheduler thread.  An
\* exception leaves __init__ with what it had assigned and written so far,
\* and no process ("down").
RedirectState_init(config, presets_doc, key) ==
    LET c == load_config(config, key)
        p == load_presets(presets_doc)
    IN  /\ data' = c.data
        /\ disk' = IF c.changed THEN c.data ELSE config
        /\ presets' = IF c.raised = "" THEN p.presets ELSE presets
        /\ presetsDisk' = IF c.raised = "" /\ p.changed THEN p.presets ELSE presets_doc
        /\ pc' = IF c.raised = "" /\ p.raised = "" THEN "sleep" ELSE "down"
        /\ ret' = IF c.raised /= "" THEN Ret("__init__", 500, c.raised)
                  ELSE IF p.raised /= "" THEN Ret("__init__", 500, p.raised)
                  ELSE Ret("__init__", 200,
                           [config_saved |-> c.changed, presets_saved |-> p.changed])
        /\ manualFired' = IF c.raised = ""
                          THEN [i \in DOMAIN c.data.manual_events |-> 0] ELSE <<>>
        /\ lock' = "free"
        /\ idx' = 0
        /\ wake' = now
        /\ created_events_today' = {}
        /\ recurringCalls' = <<>>
        /\ lastTickRaised' = FALSE
        /\ hist' = <<>>
        /\ calls' = <<>>
        /\ activating' = None
        /\ UNCHANGED <<now, schedNow, restarts>>

\* documents a start can find
ConfigDocs ==
    {MissingDoc, Truncated, ListDoc,
     Defaults(FirstKey),
     [current_url |-> "u1", port |-> 8000],
     [Defaults("") EXCEPT !.default_url = "u2"],
     [Defaults("K2") EXCEPT !.supabase_url = "sb", !.supabase_api_key = "sk"]}
PresetDocs ==
    {NotObject(MissingDoc), NotObject(Truncated), NotObject(ListDoc),
     <<>>,
     <<[name |-> <<"a">>, str |-> "u1"],
       [name |-> <<"-">>, cue |-> Some(Cue1)],
       [name |-> <<"A">>, url |-> "u2", cue |-> Some(Cue1)]>>,
     <<[name |-> <<"A">>, url |-> "u2", cue |-> Some(Cue1)],
       [name |-> <<"a">>, url |-> "u1", cue |-> None]>>,
     <<[name |-> <<"a">>, url |-> "u1"]>>,
     <<[name |-> <<"a">>, num |-> 1], [name |-> <<"A">>, str |-> "u2"]>>}

\* a start over documents found, and a start over the documents as they are
Boot == \E config \in ConfigDocs, presets_doc \in PresetDocs, key \in Keys :
            RedirectState_init(config, presets_doc, key)
Reboot == \E key \in Keys : RedirectState_init(disk, presetsDisk, key)

NextLoad == Boot \/ Reboot
SpecLoad == Init /\ [][NextLoad]_vars

\* A "url" of a request body that is JSON but no string and that "not url"
\* lets through, the number 1: values of "url" are only stored, returned and
\* compared, so the atom stands for it.
NumberUrl == "json number 1"
IsUrlString(u) == u /= NumberUrl

NextNonEmpty ==
    \/ redirect
    \/ \E url \in UrlInputs \cup {NumberUrl} : api_set_with(url)
    \/ api_temp
    \/ api_set_default
    \/ \E in \in PresetInputs : api_add_preset(<<"a">>, in)
    \/ api_activate_preset(<<"a">>, None, "accepted")
    \/ Advance
SpecNonEmpty == Init /\ [][NextNonEmpty]_vars

\* Remote calls under every configuration of the endpoint and every outcome.
RemoteInputs == SupabaseInputs \cup {<<"sb", "">>, <<"", "sk">>}

NextRemote ==
    \/ Tick
    \/ Advance
    \/ \E in \in RemoteInputs : api_set_supabase_config(in[1], in[2])
    \/ api_add_manual_event(Some(0), T1100)
    \/ api_add_preset(<<"a">>, [url |-> "u2", cue |-> Some(Cue1)])
    \/ \E outcome \in Outcomes : api_activate_preset(<<"a">>, None, outcome)
SpecRemote == Init /\ [][NextRemote]_vars

\* Requests that name an event by its index or a preset by its name.
IndexScheduledRequests == {SchedReq(sunday, T0000, TRUE), SchedReq(monday, T1100, FALSE)}
IndexManualRequests == {ManualReq(Some(0), T1100), ManualReq(Some(1), T0000)}

NextIndex ==
    \/ \E r \in IndexScheduledRequests : api_add_scheduled_event(r.day, r.time, r.enabled)
    \/ \E index \in IndexInputs, r \in IndexScheduledRequests :
           api_update_scheduled_event(index, r.day, r.time, r.enabled)
    \/ \E index \in IndexInputs : api_delete_scheduled_event(index)
    \/ \E r \in IndexManualRequests : api_add_manual_event(r.date, r.time)
    \/ \E index \in IndexInputs : api_delete_manual_event(index)
    \/ \E in \in PresetInputs : api_add_preset(<<"a">>, in)
    \/ \E name \in NameInputs : api_activate_preset(name, None, "accepted")
SpecIndex == Init /\ [][NextIndex]_vars

\* Requests that store an event definition a check cannot evaluate, beside
\* ones it can.
LoopScheduledRequests == {SchedReq(sunday, JInt(1100), TRUE), SchedReq(sunday, T0000, TRUE)}
LoopManualRequests == {ManualReq(Some(0), T1100), ManualReq(Some(0), JInt(1100))}

NextLoop ==
    \/ Tick
    \/ Advance
    \/ \E in \in SupabaseInputs : api_set_supabase_config(in[1], in[2])
    \/ \E r \in LoopScheduledRequests : api_add_scheduled_event(r.day, r.time, r.enabled)
    \/ \E r \in LoopManualRequests : api_add_manual_event(r.date, r.time)

\* the thread is inside a tick's checks, and the steps of the checks
InCheck == lock = "free" /\ pc = "scheduled"
CheckStep ==
    \/ \E outcome \in Outcomes : ScheduledStep(outcome)
    \/ \E outs \in [1..MaxManual -> Outcomes] : FinishTick(outs)

\* The thread runs whenever it can, and time passes.  CheckStep is enabled
\* exactly when InCheck holds, so the last conjunct is WF_vars(CheckStep)
\* with its enabling condition written as the state predicate it equals.
SpecLoop ==
    /\ Init /\ [][NextLoop]_vars
    /\ WF_vars(StartTick) /\ WF_vars(Advance)
    /\ ([]<>(~InCheck) \/ []<><<CheckStep>>_vars)

\* ------------------------------------------------------------ claims C1, C2

\* the call before the last one, and the last one, of the redirect logic
PrevCall == hist[Len(hist) - 1]
LastCall == hist[Len(hist)]

\* C1: get_current_url, when expires_at is set and the clock is strictly past
\* it, sets current_url to default_url, clears expires_at, writes config.json
\* and returns default_url; in every other case it returns current_url and
\* changes neither the in-memory config nor config.json.
C1_GetCurrentUrl ==
    [][redirect =>
        IF ~IsNone(data.expires_at) /\ now > Val(data.expires_at)
        THEN /\ data' = [data EXCEPT !.current_url = data.default_url,
                                     !.expires_at = None]
             /\ disk' = data'
             /\ ret'.val = data.default_url
        ELSE /\ ret'.val = data.current_url
             /\ data' = data
             /\ disk' = disk]_vars

\* A temporary URL other than the default, set for a positive duration, has
\* just been reverted by get_current_url.
C1_Witness ==
    /\ Len(hist) >= 2
    /\ PrevCall.op = "set_temp_url" /\ PrevCall.seconds > 0
    /\ PrevCall.url /= data.default_url
    /\ LastCall.op = "get_current_url" /\ LastCall.val = data.default_url
    /\ IsNone(data.expires_at) /\ disk = data

\* C2 as stated: after set_temp_url(u, 0) the very next get_current_url()
\* returns default_url, whatever time (none included) has passed.
C2_Original ==
    [][(/\ Len(hist) >= 1
        /\ LastCall.op = "set_temp_url" /\ LastCall.seconds = 0
        /\ redirect)
       => ret'.val = data.default_url /\ IsNone(data'.expires_at)]_vars

\* C2 amended: set_temp_url(u, 0) stores the clock reading of the call as
\* expires_at; the next get_current_url() returns default_url and clears
\* expires_at when the clock has moved strictly past that reading, and
\* returns u with expires_at kept when it has not; a get_current_url() that
\* follows with expires_at cleared, or with the clock past it, returns
\* default_url and leaves expires_at cleared.
C2_Amended ==
    [][/\ (api_temp /\ ret'.status = 200 /\ hist' /= <<>> /\ hist'[Len(hist')].seconds = 0)
            => data'.expires_at = Some(now) /\ data'.current_url = ret'.val
       /\ (/\ Len(hist) >= 1
           /\ LastCall.op = "set_temp_url" /\ LastCall.seconds = 0
           /\ redirect)
            => IF now > Val(data.expires_at)
               THEN ret'.val = data.default_url /\ IsNone(data'.expires_at)
               ELSE ret'.val = LastCall.url /\ data'.expires_at = data.expires_at
       /\ (/\ Len(hist) >= 2
           /\ PrevCall.op = "set_temp_url" /\ PrevCall.seconds = 0
           /\ LastCall.op = "get_current_url"
           /\ redirect)
            => ((IsNone(data.expires_at) \/ now > Val(data.expires_at))
                   => ret'.val = data.default_url /\ IsNone(data'.expires_at))]_vars

\* set_temp_url(u, 0) with u other than the default, the clock moved on, and
\* the next get_current_url() returned default_url with expires_at cleared.
C2_Witness ==
    /\ Len(hist) >= 2
    /\ PrevCall.op = "set_temp_url" /\ PrevCall.seconds = 0
    /\ PrevCall.url /= data.default_url
    /\ LastCall.op = "get_current_url" /\ LastCall.val = data.default_url
    /\ IsNone(data.expires_at)

\* ------------------------------------------------------------ claims C3 - C6

\* the successful calls among the results rs of one key
RECURSIVE Successes(_)
Successes(rs) == IF rs = <<>> THEN 0 ELSE (IF Head(rs) THEN 1 ELSE 0) + Successes(Tail(rs))

\* C3: within one process run the recurring check makes at most one
\* successful createEvent call per calendar date and time of day (00:00
\* included), however many ticks fall inside the matching minute.
C3_AtMostOncePerDay ==
    \A k \in DOMAIN recurringCalls : Successes(recurringCalls[k]) <= 1

\* C4: a manual event makes at most one successful createEvent call, over
\* every tick of its minute and over restarts of the process.
C4_ManualAtMostOnce ==
    \A i \in DOMAIN manualFired : manualFired[i] <= 1

\* an enabled recurring event whose day and time are those of clock reading t
Matching(e, t) ==
    /\ e.enabled
    /\ Lower(e.day) = Lower(WeekdayName(t))
    /\ ParseTime(e.time)[1] = "ok"
    /\ ParseTime(e.time)[2] = Hour(t) /\ ParseTime(e.time)[3] = Minute(t)

\* C5: a failed createEvent for a matching recurring event leaves its dedup
\* key out of the fired-set; a matching event whose key's last createEvent
\* failed gets createEvent called again by the next check of it in the same
\* minute; and a key enters the fired-set only in a step whose createEvent
\* call for that key succeeded.
C5_RetryOnFailure ==
    [][\A outcome \in Outcomes : ScheduledStep(outcome) =>
        LET e == data.scheduled_events[idx + 1]
            key == <<Date(schedNow), e.time>>
        IN  /\ (calls' /= <<>> /\ ~calls'[1].ok)
                  => /\ key \notin created_events_today'
                     /\ created_events_today' = created_events_today
            /\ (/\ Matching(e, schedNow)
                /\ key \in DOMAIN recurringCalls
                /\ ~Last(recurringCalls[key]))
                  => /\ calls' /= <<>>
                     /\ calls'[1].op = "createEvent" /\ calls'[1].arg = key
            /\ \A k \in created_events_today' \ created_events_today :
                  /\ calls' /= <<>>
                  /\ calls'[1].op = "createEvent" /\ calls'[1].arg = k /\ calls'[1].ok]_vars

\* At 11:00 a createEvent call that failed was followed, for the same key, by
\* one that succeeded, and only then is the key in the fired-set.
C5_Witness ==
    \E k \in DOMAIN recurringCalls :
        /\ k[2] = T1100 /\ Hour(schedNow) = 11
        /\ recurringCalls[k] = <<FALSE, TRUE>>
        /\ k \in created_events_today
        /\ calls /= <<>> /\ calls[1].arg = k /\ calls[1].ok

\* C6: with api_key_enabled true, an activation request on either route with
\* no key or a key other than the stored one is rejected and leaves
\* current_url, expires_at and the presets as they were.
C6_SecurityGate ==
    [][\A name \in NameInputs, key \in KeyInputs :
        (/\ data.api_key_enabled
         /\ IsNone(key) \/ Val(key) /= data.api_key
         /\ \/ api_activate_preset(name, key, "accepted")
            \/ activate_preset_by_url(name, key, "accepted"))
        => /\ ret'.status /= 200
           /\ data'.current_url = data.current_url
           /\ data'.expires_at = data.expires_at
           /\ presets' = presets]_vars

\* --------------------------------------------------------- claims C7 - C9

\* the comparison of C7: lower-case the name and replace '-' by a space
Normalized(name) == ReplaceDash(Lower(name))

\* C7: after any sequence of preset upsert, delete and rename operations, no
\* two stored preset names are equal once lower-cased and with '-' replaced
\* by a space.
C7_UniqueNormalized ==
    \A i, j \in DOMAIN presets :
        i /= j => Normalized(presets[i].name) /= Normalized(presets[j].name)

\* C8: rename_preset(old, new) with old stored returns true, keeps the
\* length, puts new with old's data at old's position, leaves every other
\* entry where it was and writes presets.json, for every new name; with old
\* absent it returns false and leaves the registry and presets.json alone.
C8_Rename ==
    [][\A old, new \in Names :
        api_rename_preset(old, new) =>
            IF HasKey(presets, old)
            THEN /\ ret'.val = TRUE
                 /\ Len(presets') = Len(presets)
                 /\ \A i \in DOMAIN presets :
                        presets'[i] = IF presets[i].name = old
                                      THEN [presets[i] EXCEPT !.name = new]
                                      ELSE presets[i]
                 /\ presetsDisk' = presets'
            ELSE /\ ret'.val = FALSE
                 /\ presets' = presets
                 /\ presetsDisk' = presetsDisk]_vars

\* C9: a query q whose normalisation equals the lower-cased stored name n
\* resolves to n (original casing) with n's url, a query matching no stored
\* name is not found, and the lookup changes no preset.
C9_GetPreset ==
    [][\A q \in Names :
        api_activate_preset(q, None, "accepted") =>
            /\ presets' = presets /\ presetsDisk' = presetsDisk
            /\ \A i \in DOMAIN presets :
                   Lower(ReplaceDash(q)) = Lower(presets[i].name)
                       => /\ ret'.status = 200
                          /\ ret'.val.active_preset = presets[i].name
                          /\ ret'.val.active_url = presets[i].url
            /\ (\A i \in DOMAIN presets : Lower(ReplaceDash(q)) /= Lower(presets[i].name))
                   => ret'.status = 404]_vars

\* -------------------------------------------------------------- claim C10

\* C10: whenever no operation holds the state lock, config.json equals the
\* in-memory config, after every setter and after every scheduler tick,
\* however the tick ends.
C10_WriteThrough == lock = "free" => disk = data

\* ---------------------------------------------------------- claims C11, C12

\* C11: listing the presets and get_preset read the preset mapping only when
\* no upsert, delete or rename is between its change of the mapping and the
\* end of its persistence write.
C11_ReadsUnderLock ==
    [][(\/ api_get_presets
        \/ \E name \in NameInputs : api_activate_preset(name, None, "accepted"))
       => lock = "free"]_vars

\* C12: no request to the remote API (createEvent from either check,
\* publishCue from an activation) is sent while the caller holds the state
\* lock.
C12_NoCallUnderLock ==
    \A i \in DOMAIN calls : calls[i].http > 0 => ~calls[i].locked

\* ---------------------------------------------------------- claims C13, C14

\* C13: the scheduler thread never ends: every tick, however its checks end,
\* reaches time.sleep(30), and after the sleep the next tick runs (as long as
\* the clock of the model can reach the end of the sleep).
C13_LoopNeverEnds ==
    /\ [](pc /= "dead")
    /\ [](pc = "scheduled" => <>(pc = "sleep"))
    /\ []((pc = "sleep" /\ wake <= StartTime + MaxNow) => <>(pc = "scheduled"))

\* A tick was left by an exception and the next tick is running.
C13_Witness == lastTickRaised /\ pc = "scheduled"

\* C14: a manual event for 11:00 today that is on the list while it is still
\* 00:00 is eventually created, by exactly one successful createEvent call
\* (unless the remote endpoint loses its configuration or a tick is left by
\* an exception in the meantime).
C14_EventuallyCreated ==
    \A i \in 1..MaxManual :
        []((/\ i \in DOMAIN data.manual_events
            /\ data.manual_events[i].date = Date(now)
            /\ data.manual_events[i].time = T1100
            /\ Hour(now) = 0
            /\ Configured(data))
           => <>(\/ i \in DOMAIN manualFired /\ manualFired[i] = 1
                 \/ ~Configured(data)
                 \/ lastTickRaised))

\* -------------------------------------------------------------- claim C15

\* C15: when the write of config.json fails during a setter, the
\* configuration in memory after the request is the one before it.
C15_FailedWriteLeavesMemory == [][FailedWrite => data' = data]_vars

\* -------------------------------------------------------------- claim C16

\* a JSON value that is an integer: a number without a fraction, or the
\* decimal digits of one
IsInteger(j) ==
    \/ j[1] = "int"
    \/ j[1] = "float" /\ j[3] = 0
    \/ j[1] = "str" /\ IsDecimal(j[2])

Rejected == ret'.status >= 400 /\ UNCHANGED <<data, disk, presets, presetsDisk>>

\* C16: a request without a url, with seconds missing or not an integer, or
\* with a port that is not an integer in 1024..65535, is answered with an
\* error and changes neither the configuration, the presets nor a document.
C16_InvalidRejected ==
    [][/\ \A url \in UrlInputs, seconds \in SecondsInputs \cup FractionSeconds :
              (api_temp_with(url, seconds) /\ (url = "" \/ ~IsInteger(seconds)))
                  => Rejected
       /\ (api_set /\ ret'.status = 400) => Rejected
       /\ (api_set_default /\ ret'.status = 400) => Rejected
       /\ \A port \in PortInputs \cup FractionPorts :
              (/\ api_set_port(port)
               /\ ~(/\ IsInteger(port)
                    /\ PyInt(port)[2] >= 1024
                    /\ PyInt(port)[2] <= 65535))
                  => Rejected]_vars

\* -------------------------------------------------------------- claim C17

InRange(index, events) == 0 <= index /\ index < Len(events)

\* no stored name equals the name under the comparison of names
NoMatch(name) == \A i \in DOMAIN presets : Normalized(presets[i].name) /= Normalized(name)

IndexFailure ==
    /\ ret'.val = "error"
    /\ data'.scheduled_events = data.scheduled_events
    /\ data'.manual_events = data.manual_events
    /\ disk' = disk

\* C17: removing or updating a scheduled event, or removing a manual event,
\* by an index outside 0..len-1 reports failure and changes neither list nor
\* config.json; activating a name no stored preset matches is answered 404
\* and changes neither current_url nor expires_at.
C17_UnknownIndexOrName ==
    [][/\ \A index \in IndexInputs :
              /\ (/\ api_delete_scheduled_event(index)
                  /\ ~InRange(index, data.scheduled_events)) => IndexFailure
              /\ \A r \in IndexScheduledRequests :
                     (/\ api_update_scheduled_event(index, r.day, r.time, r.enabled)
                      /\ ~InRange(index, data.scheduled_events)) => IndexFailure
              /\ (/\ api_delete_manual_event(index)
                  /\ ~InRange(index, data.manual_events)) => IndexFailure
       /\ \A name \in Names :
              (api_activate_preset(name, None, "accepted") /\ NoMatch(name))
                  => /\ ret'.status = 404
                     /\ data'.current_url = data.current_url
                     /\ data'.expires_at = data.expires_at
                     /\ disk' = disk]_vars

\* A removal by an index that is not on a list of two events was refused.
C17_Witness ==
    /\ ret.op = "api_delete_scheduled_event"
    /\ ret.val = "error"
    /\ Len(data.scheduled_events) = MaxScheduled

\* -------------------------------------------------------------- claim C18

\* a document that is missing, does not parse, or is not a mapping
BadConfig(doc) == Unreadable(doc) \/ IsList(doc)
BadPresets(doc) == doc \in {NotObject(MissingDoc), NotObject(Truncated), NotObject(ListDoc)}

\* C18: a start completes over any pair of documents, with the default
\* configuration for a config document that is missing, unparseable or not
\* a mapping, and with no presets for such a presets document.
C18_InitCompletes ==
    [][\A config \in ConfigDocs, presets_doc \in PresetDocs, key \in Keys :
           RedirectState_init(config, presets_doc, key)
               => /\ pc' = "sleep"
                  /\ BadConfig(config) => data' = Defaults(key)
                  /\ BadPresets(presets_doc) => presets' = <<>>]_vars

\* -------------------------------------------------------------- claim C19

\* an entry the load keeps: a bare string, or an object with a url
Usable(e) == "str" \in DOMAIN e \/ "url" \in DOMAIN e

\* C19: a start that loads a presets document keeps, in their order, exactly
\* its entries that are a bare string or an object with a url, a bare string
\* as {url, cue: null}; writes presets.json exactly when that differs from
\* the document; and a second start over what the first one left loads the
\* same presets and writes nothing.
C19_LoadNormalises ==
    [][\A key \in Keys :
           /\ \A config \in ConfigDocs, presets_doc \in PresetDocs :
                  (RedirectState_init(config, presets_doc, key) /\ ret'.status = 200)
                      => LET raw == IF BadPresets(presets_doc) THEN <<>> ELSE presets_doc
                             want == SelectSeq(raw, Usable)
                         IN  /\ Len(presets') = Len(want)
                             /\ \A i \in DOMAIN want :
                                    /\ presets'[i].name = want[i].name
                                    /\ presets'[i].url = IF "str" \in DOMAIN want[i]
                                                         THEN want[i].str ELSE want[i].url
                                    /\ presets'[i].cue = IF "cue" \in DOMAIN want[i]
                                                         THEN want[i].cue ELSE None
                             /\ ret'.val.presets_saved = (raw /= presets')
                             /\ presetsDisk' = IF raw /= presets' THEN presets' ELSE presets_doc
                             /\ load_presets(presetsDisk').presets = presets'
                             /\ ~load_presets(presetsDisk').changed
           /\ (/\ ret.op = "__init__"
               /\ ret.status = 200
               /\ RedirectState_init(disk, presetsDisk, key))
                  => /\ ret'.status = 200
                     /\ presets' = presets
                     /\ presetsDisk' = presetsDisk
                     /\ ~ret'.val.presets_saved]_vars

\* A start has wrapped a bare string, dropped an object without a url, kept
\* the order of the other two entries and written the result.
C19_Witness ==
    /\ ret.op = "__init__"
    /\ ret.status = 200
    /\ ret.val.presets_saved
    /\ presets = <<Entry(<<"a">>, "u1", None), Entry(<<"A">>, "u2", Some(Cue1))>>
    /\ presetsDisk = presets

\* -------------------------------------------------------------- claim C20

\* C20: whatever requests.post does, publishCue and createEvent return a
\* result; with supabase_url or supabase_api_key empty the result is a
\* failure and no HTTP request is sent.
C20_RemoteResults ==
    [][(\/ Tick
        \/ /\ \E outcome \in Outcomes : api_activate_preset(<<"a">>, None, outcome)
           /\ ret'.status = 200)
           => \A i \in DOMAIN calls' :
                  /\ ~calls'[i].raised
                  /\ (data.supabase_url = "" \/ data.supabase_api_key = "")
                         => calls'[i].http = 0 /\ ~calls'[i].ok]_vars

\* The recurring check has asked for an event with only the URL of the
\* endpoint configured, and was answered without a request.
C20_Witness ==
    /\ pc = "scheduled"
    /\ data.supabase_url = "sb"
    /\ data.supabase_api_key = ""
    /\ Len(calls) = 1
    /\ calls[1].op = "createEvent"
    /\ calls[1].http = 0
    /\ ~calls[1].ok

\* ------------------------------------ specifications of single scenarios

\* Activations of a preset with and without cue, under every configuration
\* of the endpoint and every outcome of the cue post.
NextCue ==
    \/ \E in \in PresetInputs : api_add_preset(<<"a">>, in)
    \/ \E in \in RemoteInputs : api_set_supabase_config(in[1], in[2])
    \/ \E outcome \in Outcomes : api_activate_preset(<<"a">>, None, outcome)
    \/ api_temp
    \/ Advance
SpecCue == Init /\ [][NextCue]_vars

\* Scheduled-event requests with days inside and outside the week.
DayRequests == {SchedReq(sunday, T0000, TRUE), SchedReq(Monday, T1100, TRUE),
                SchedReq(funday, T0000, TRUE)}

NextDays ==
    \/ \E r \in DayRequests : api_add_scheduled_event(r.day, r.time, r.enabled)
    \/ \E index \in IndexInputs, r \in DayRequests :
           api_update_scheduled_event(index, r.day, r.time, r.enabled)
    \/ \E index \in IndexInputs : api_delete_scheduled_event(index)
    \/ Advance
SpecDays == Init /\ [][NextDays]_vars

\* Requests that change the recurring list while a check may be running:
\* removals at any moment, additions while the scheduler thread sleeps.
SnapshotRequests == {SchedReq(sunday, T0000, TRUE), SchedReq(Monday, T0000, TRUE)}

\* The recurring check under every outcome of the create call and of the
\* start-time update that follows it.
NextFollowUp ==
    \/ StartTick
    \/ \E outcome, followup \in Outcomes : ScheduledStepWith(outcome, followup)
    \/ FinishTick([i \in 1..MaxManual |-> "accepted"])
    \/ Advance
    \/ \E in \in RemoteInputs : api_set_supabase_config(in[1], in[2])
    \/ \E r \in SnapshotRequests : api_add_scheduled_event(r.day, r.time, r.enabled)
SpecFollowUp == Init /\ [][NextFollowUp]_vars

api_add_scheduled_event_asleep(day, time_str, enabled) ==
    /\ pc = "sleep"
    /\ api_add_scheduled_event(day, time_str, enabled)

NextSnapshot ==
    \/ Tick
    \/ Advance
    \/ \E r \in SnapshotRequests : api_add_scheduled_event_asleep(r.day, r.time, r.enabled)
    \/ \E index \in IndexInputs : api_delete_scheduled_event(index)
SpecSnapshot == Init /\ [][NextSnapshot]_vars

\* -------------------------------------------------------------- claim C21

\* C21: an accepted POST /api/presets/add of a name that is not stored
\* appends {url, cue} under it; of a stored name, it puts {url, cue} in the
\* place of its entry; every other entry stays where and what it was.
C21_Upsert ==
    [][\A name \in Names, in \in PresetInputs :
           (api_add_preset(name, in) /\ ret'.status = 200)
               => LET at == {i \in DOMAIN presets : presets[i].name = name}
                      where == IF at = {} THEN {Len(presets) + 1} ELSE at
                  IN  /\ Len(presets') = Len(presets) + (IF at = {} THEN 1 ELSE 0)
                      /\ \A i \in DOMAIN presets' :
                             IF i \in where
                             THEN /\ presets'[i].name = name
                                  /\ presets'[i].url = in.url
                                  /\ presets'[i].cue = in.cue
                             ELSE presets'[i] = presets[i]]_vars

\* The first of two presets carries no cue and the url of a request without
\* one: the request has added it or replaced it where it was.
C21_Witness ==
    /\ ret.op = "api_add_preset"
    /\ ret.status = 200
    /\ Len(presets) = MaxPresets
    /\ presets[1].url = "u1"
    /\ presets[1].cue = None
    /\ presets[2].cue = Some(Cue1)

\* -------------------------------------------------------------- claim C22

\* C22: POST /api/set of u leaves current_url = u and no expires_at; the
\* get_current_url calls that follow return u and change nothing, however
\* much time passes and whatever set_temp_url came before; and with no
\* expires_at, neither a get_current_url, nor time, nor a set_default_url
\* changes current_url or brings an expires_at back.
C22_PermanentOverride ==
    [][/\ (api_set /\ ret'.status = 200)
            => data'.current_url = ret'.val /\ IsNone(data'.expires_at)
       /\ (redirect /\ Len(hist) >= 1 /\ LastCall.op = "set_current_url")
            => ret'.val = LastCall.url /\ data' = data
       /\ (/\ redirect
           /\ Len(hist) >= 2
           /\ PrevCall.op = "set_current_url"
           /\ LastCall.op = "get_current_url")
            => ret'.val = PrevCall.url /\ data' = data
       /\ ((redirect \/ Advance \/ api_set_default) /\ IsNone(data.expires_at))
            => data'.current_url = data.current_url /\ IsNone(data'.expires_at)]_vars

\* After a set_current_url of a URL other than the default, at the last
\* clock reading, get_current_url has returned that URL.
C22_Witness ==
    /\ Len(hist) >= 2
    /\ PrevCall.op = "set_current_url"
    /\ PrevCall.url /= data.default_url
    /\ LastCall.op = "get_current_url"
    /\ LastCall.val = PrevCall.url
    /\ now = StartTime + MaxNow

\* -------------------------------------------------------------- claim C23

\* C23: a POST /api/temp that is accepted carries a seconds value that is a
\* non-negative integer, and the expires_at it stores is strictly later than
\* the clock reading of the request.
C23_ExpiryInFuture ==
    [][\A url \in UrlInputs, seconds \in SecondsInputs :
           (api_temp_with(url, seconds) /\ ret'.status = 200)
               => /\ IsInteger(seconds) /\ PyInt(seconds)[2] >= 0
                  /\ ~IsNone(data'.expires_at)
                  /\ Val(data'.expires_at) > now]_vars

\* -------------------------------------------------------------- claim C24

\* C24: current_url and default_url are strings and not empty, and
\* get_current_url never returns the empty string.
C24_UrlsNonEmpty ==
    /\ IsUrlString(data.current_url) /\ data.current_url /= ""
    /\ IsUrlString(data.default_url) /\ data.default_url /= ""
    /\ ret.op = "redirect" => ret.val /= ""

\* C25: an activation that runs together with set_temp_url(T, s) ends with
\* the preset's URL current, or with T current and its timer set: when the
\* activation's clear_timer finds a timer running, the URL it leaves without
\* a timer is the preset's own.
C25_ActivationAtomic ==
    [][api_activate_preset_clear_timer("accepted") /\ ~IsNone(data.expires_at)
         => data'.current_url = Val(activating).url]_vars

\* C26: GET /api/current reports the current_url, and the temporary or
\* permanent status, that get_current_url() would produce at that moment,
\* also when expires_at has passed and no get_current_url() ran since.
C26_InfoAgrees ==
    [][api_current =>
         LET r == get_current_url(data, now)
         IN  /\ ret'.val.current_url = r.val
             /\ ret'.val.is_temporary = ~IsNone(r.data.expires_at)]_vars

\* C27: an error raised while one event definition is evaluated does not
\* stop the rest of the tick: when a tick ends, the fired-set has been
\* cleared if the check ran at midnight, and createEvent has been called for
\* every manual event due in the current minute.
C27_TickEvaluatesAll ==
    [][pc = "scheduled" /\ pc' /= "scheduled" =>
         /\ \A i \in DOMAIN data.manual_events :
                ManualVerdict(data.manual_events[i], now) = "create" =>
                    \E j \in DOMAIN calls' :
                        /\ calls'[j].by = "manual"
                        /\ calls'[j].arg = <<data.manual_events[i].date,
                                             data.manual_events[i].time>>
         /\ Hour(schedNow) = 0 /\ Minute(schedNow) = 0 => created_events_today' = {}]_vars

\* C28: created = true of a manual event whose createEvent succeeded is in
\* config.json on every way the manual check can end, an error raised by a
\* later event included: when a tick ends, every manual event marked created
\* in memory is marked created in the file.
C28_CreatedPersisted ==
    [][pc = "scheduled" /\ pc' /= "scheduled" =>
         \A i \in DOMAIN data'.manual_events :
             data'.manual_events[i].created =>
                 /\ i \in DOMAIN disk'.manual_events
                 /\ disk'.manual_events[i].created]_vars

\* C29: every stored preset can be looked up by its own stored name, names
\* with '-' or upper-case letters included: get_preset(n) returns the preset
\* stored under n.
C29_LookupByStoredName ==
    \A i \in DOMAIN presets : get_preset(presets, presets[i].name) = Some(presets[i])

\* C30: the recurring check evaluates a stable snapshot of scheduled_events:
\* a removal running concurrently with a tick cannot make the tick skip an
\* enabled, matching event that stays in the list.  When the loop of the
\* check ends, every event of the list that is due at the check's clock
\* reading has had its createEvent call.
C30_StableSnapshot ==
    [][pc = "scheduled" /\ idx >= Len(data.scheduled_events) /\ pc' /= "scheduled" =>
         \A i \in DOMAIN data.scheduled_events :
             LET e == data.scheduled_events[i]
             IN  ScheduledVerdict(e, schedNow, created_events_today) = "create" =>
                     <<Date(schedNow), e.time>> \in DOMAIN recurringCalls]_vars

\* -------------------------------------------------------------- claim C31

\* C31: activating a stored preset sets current_url to the preset's url and
\* expires_at to none and answers 200 with the preset's name and url,
\* whatever the outcome of the cue post; with the endpoint configured, a
\* preset without cue makes one cue post with empty fields.
C31_ActivationWhateverCue ==
    [][\A outcome \in Outcomes :
          api_activate_preset(<<"a">>, None, outcome) /\ ~IsNone(get_preset(presets, <<"a">>))
          => LET p == Val(get_preset(presets, <<"a">>))
             IN  /\ data'.current_url = p.url
                 /\ IsNone(data'.expires_at)
                 /\ disk' = data'
                 /\ ret'.status = 200
                 /\ ret'.val.active_preset = p.name
                 /\ ret'.val.active_url = p.url
                 /\ ret'.val.cue_posted = (Configured(data) /\ outcome = "accepted")
                 /\ Configured(data) /\ IsNone(p.cue)
                        => /\ Len(calls') = 1
                           /\ calls'[1].http = 1
                           /\ calls'[1].payload = Some(cue_payload(p.name, None))]_vars

\* A preset without cue was activated, its cue post went out with empty
\* fields and failed, and the activation was answered 200.
C31_Witness ==
    /\ ret.op = "api_activate_preset"
    /\ ret.status = 200
    /\ ~ret.val.cue_posted
    /\ data.current_url = ret.val.active_url
    /\ IsNone(data.expires_at)
    /\ Len(calls) = 1
    /\ calls[1].http = 1
    /\ ~calls[1].ok
    /\ Val(calls[1].payload).headline = ""

\* -------------------------------------------------------------- claim C32

\* C32: deleting a name that is not stored raises no error, leaves the
\* ordered registry as it was and writes no presets document; deleting a
\* stored name removes that entry alone and keeps the others in their order.
C32_DeleteExact ==
    [][\A name \in Names :
          api_delete_preset(name)
          => /\ ret'.status = 200
             /\ IF HasKey(presets, name)
                THEN /\ presets' = SelectSeq(presets, LAMBDA e : e.name /= name)
                     /\ Len(presets') = Len(presets) - 1
                     /\ presetsDisk' = presets'
                ELSE /\ presets' = presets
                     /\ ~delete_preset(presets, name).saved
                     /\ presetsDisk' = presetsDisk]_vars

\* A delete request was answered with the registry still full: the name it
\* gave was not a stored one.
C32_Witness ==
    /\ ret.op = "api_delete_preset"
    /\ ret.status = 200
    /\ Len(presets) = MaxPresets
    /\ presetsDisk = presets

\* -------------------------------------------------------------- claim C33

\* C33: the result of createEvent is that of the create call alone.  The
\* start-time update is sent only after an accepted create with a start time
\* given, and the result is success whether the update is accepted, rejected
\* or fails in transport: the recurring check records the key all the same.
C33_CreateAloneDecides ==
    [][\A outcome, followup \in Outcomes :
          /\ ScheduledStepWith(outcome, followup)
          /\ ScheduledVerdict(data.scheduled_events[idx + 1], schedNow,
                              created_events_today) = "create"
          => LET key == <<Date(schedNow), data.scheduled_events[idx + 1].time>>
                 accepted == Configured(data) /\ outcome = "accepted"
             IN  /\ Len(calls') = 1
                 /\ ~calls'[1].raised
                 /\ calls'[1].ok = accepted
                 /\ calls'[1].http = (IF ~Configured(data) THEN 0
                                      ELSE IF accepted THEN 2 ELSE 1)
                 /\ (key \in created_events_today') = accepted
                 /\ \A o \in Outcomes :
                        LET c == create_event_in_supabase_with(data, "scheduled", key,
                                                               None, outcome, o)
                        IN  /\ c.ok = accepted
                            /\ c.http <= 1]_vars

\* The recurring check has recorded the key of an event whose create call
\* was accepted and whose start-time update failed in transport.
C33_Witness ==
    /\ pc = "scheduled"
    /\ Len(calls) = 1
    /\ calls[1].op = "createEvent"
    /\ calls[1].ok
    /\ calls[1].http = 2
    /\ calls[1].followup = "error"
    /\ calls[1].arg \in created_events_today

\* -------------------------------------------------------------- claim C34

\* C34: after any sequence of scheduled-event add, update and remove
\* requests, every stored recurring event has a day of the week as its day.
C34_DaysValid ==
    \A i \in DOMAIN data.scheduled_events : data.scheduled_events[i].day \in valid_days
====
